---- MODULE Spec2Model ----
(***************************************************************************)
(* Roster state machine of the football sign-up bot (src/main.py).         *)
(*                                                                         *)
(* chat_data is the per-chat dictionary kept by the framework; its only    *)
(* key is "event".  An event is modelled by the fields the handlers read   *)
(* and write: title, capacity, locked, players (the confirmed list) and    *)
(* waitlist.  A row is [user_id, name, is_vip].  The timestamps            *)
(* (joined_at, created_at) are written and never read, and are left out.   *)
(***************************************************************************)
EXTENDS Integers, Sequences, FiniteSets, Bags, TLC

VARIABLES chat_data, last, tasks

vars == <<chat_data, last, tasks>>

(* ------------------------------ bounds --------------------------------- *)
\* Telegram users that send any request at any time: ids 1..MaxUsers.
MaxUsers == 2
\* Largest capacity override typed after /newgame (the smallest is -1).
MaxOverride == 2
\* Handlers of one chat that may be suspended at an await at the same time
\* (SpecAsync).
MaxTasks == 2

(* ------------------------------ CONFIG --------------------------------- *)
DEFAULT_CAPACITY == 15
WAITLIST_CAPACITY == 5
VIP_NAMES == <<"Albert", "Ah Soon">>

\* Python's None as a user_id: equal to no user's id (ids are positive).
None == 0
\* Python's None as a title.
NoTitle == "<None>"

Users == 1..MaxUsers
\* Further members of the chat, enough of them to fill the waitlist next to
\* one user.  Each of them only ever joins, and they join in the order of
\* their ids (members that differ only in their id are interchangeable).
Background == (MaxUsers + 1)..(MaxUsers + WAITLIST_CAPACITY - 1)
Overrides == -1..MaxOverride

Max(a, b) == IF a >= b THEN a ELSE b
Min(a, b) == IF a <= b THEN a ELSE b

\* user.full_name of a Telegram user.
full_name(uid) == "User" \o ToString(uid)

(* ----------------------------- Utilities ------------------------------- *)
\* The outcome of context.bot.get_chat_member: an administrator or owner,
\* a plain member, or an exception.
Lookups == {"admin", "member", "error"}

\* An admin check that lets the caller through when the lookup fails.
user_is_admin_fail_open(lookup) == lookup \in {"admin", "error"}

\* user_is_admin: True only for an administrator/owner; an exception of the
\* lookup is caught and gives False.
user_is_admin(lookup) == lookup = "admin"

NoChat == [k \in {} |-> 0]

DefaultEvent ==
    [title |-> NoTitle, capacity |-> DEFAULT_CAPACITY, locked |-> FALSE,
     players |-> <<>>, waitlist |-> <<>>]

\* ensure_event: chat_data after the call; the event is its "event" entry.
ensure_event(cd) ==
    IF "event" \notin DOMAIN cd THEN [event |-> DefaultEvent] ELSE cd

\* A find_user that starts its scan at the second row.
find_user_skip_first(lst, user_id) ==
    IF \E i \in 2..Len(lst) : lst[i].user_id = user_id
    THEN (CHOOSE i \in 2..Len(lst) :
            /\ lst[i].user_id = user_id
            /\ \A j \in 2..(i - 1) : lst[j].user_id # user_id) - 1
    ELSE -1

\* A find_user that takes a row without user_id for a match.
find_user_matches_none(lst, user_id) ==
    IF \E i \in 1..Len(lst) : lst[i].user_id \in {user_id, None}
    THEN (CHOOSE i \in 1..Len(lst) :
            /\ lst[i].user_id \in {user_id, None}
            /\ \A j \in 1..(i - 1) : lst[j].user_id \notin {user_id, None}) - 1
    ELSE -1

\* find_user: 0-based index of the first row with this user_id, or -1.
find_user(lst, user_id) ==
    IF \E i \in 1..Len(lst) : lst[i].user_id = user_id
    THEN (CHOOSE i \in 1..Len(lst) :
            /\ lst[i].user_id = user_id
            /\ \A j \in 1..(i - 1) : lst[j].user_id # user_id) - 1
    ELSE -1

VipRow(nm) == [user_id |-> None, name |-> nm, is_vip |-> TRUE]

RECURSIVE vip_loop(_, _, _)
vip_loop(rows, i, capacity) ==
    IF i > Len(VIP_NAMES) \/ Len(rows) >= capacity
    THEN rows
    ELSE vip_loop(Append(rows, VipRow(VIP_NAMES[i])), i + 1, capacity)

\* vip_rows: reserved rows for VIP_NAMES, up to capacity.
vip_rows(capacity) == vip_loop(<<>>, 1, capacity)

\* Python's seq[:n], also for a negative n.
SliceTo(seq, n) ==
    IF n >= 0 THEN SubSeq(seq, 1, Min(n, Len(seq)))
    ELSE SubSeq(seq, 1, Max(0, Len(seq) + n))

Pop(seq, k) == SubSeq(seq, 1, k - 1) \o SubSeq(seq, k + 1, Len(seq))

(* ------------------------ the arguments of /newgame -------------------- *)
\* int(token): the tokens that parse are the decimal numerals.
IntRange == (-9)..99
IsInt(tok) == \E n \in IntRange : ToString(n) = tok
int(tok) == CHOOSE n \in IntRange : ToString(n) = tok

RECURSIVE JoinTokens(_)
\* " ".join(args)
JoinTokens(args) ==
    IF Len(args) = 0 THEN ""
    ELSE IF Len(args) = 1 THEN args[1]
    ELSE args[1] \o " " \o JoinTokens(Tail(args))

\* dtparser.parse(title, fuzzy=True) followed by strftime("%a %d %b, %I:%M %p"):
\* a text with a date in it is replaced by the formatted date, any other text
\* makes the parser raise and is kept.
format_title(title) ==
    IF title = "5 Oct 2024 7pm" THEN "Sat 05 Oct, 07:00 PM" ELSE title

TitleInputs == {<<>>, <<"5", "Oct", "2024", "7pm">>}
CapInputs == {<<>>} \cup {<<ToString(c)>> : c \in Overrides}
ArgInputs == {t \o c : t \in TitleInputs, c \in CapInputs}

(* ------------------------------ replies -------------------------------- *)
\* last is the request handled last and the reply to it.  Of the request it
\* keeps the command, the sender's id where the handler reads it (join and
\* leave), the outcome of the admin lookup and the arguments where the handler
\* gets that far (the admin commands); of the reply the outcome, the number
\* shown in the text and the promoted actor.
Reply(op, uid, code, pos, promoted) ==
    [op |-> op, uid |-> uid, code |-> code, pos |-> pos, promoted |-> promoted,
     lookup |-> "none", args |-> <<>>]

\* The reply of an admin command.
AdminReply(op, lookup, code, pos, args) ==
    [op |-> op, uid |-> None, code |-> code, pos |-> pos, promoted |-> None,
     lookup |-> lookup, args |-> args]

NoReply == Reply("none", None, "NONE", 0, None)

(* -------------------------- Command Handlers --------------------------- *)
\* A handler is an operator from chat_data and the request to the chat_data it
\* leaves and the reply it sends.
Result(cd, reply) == [chat |-> cd, reply |-> reply]

\* This user's row as handle_join builds it (src/main.py:333).
Entry(uid) == [user_id |-> uid, name |-> full_name(uid), is_vip |-> FALSE]

\* title = event.get("title") or "Next Game"
title_or_default(event) ==
    IF event.title = NoTitle \/ event.title = "" THEN "Next Game" ELSE event.title

\* A /newgame that falls back to DEFAULT_CAPACITY when no capacity is typed.
newgame_capacity_default(event, args) ==
    IF Len(args) > 0 /\ IsInt(args[Len(args)]) THEN int(args[Len(args)])
    ELSE DEFAULT_CAPACITY

\* The capacity /newgame works with: the event's unless the last token is an int.
newgame_capacity(event, args) ==
    IF Len(args) > 0 /\ IsInt(args[Len(args)]) THEN int(args[Len(args)])
    ELSE event.capacity

\* The tokens left for the title once an int last token is taken off.
newgame_title_args(args) ==
    IF Len(args) > 0 /\ IsInt(args[Len(args)]) THEN SubSeq(args, 1, Len(args) - 1)
    ELSE args

newgame_title(event, args) ==
    IF Len(newgame_title_args(args)) > 0
    THEN format_title(JoinTokens(newgame_title_args(args)))
    ELSE title_or_default(event)

\* A /newgame that stores the capacity as typed.
new_event_unclamped(title, capacity) ==
    [title |-> title,
     capacity |-> capacity,
     locked |-> FALSE,
     players |-> SliceTo(vip_rows(Max(1, capacity)), capacity),
     waitlist |-> <<>>]

\* The event /newgame stores (src/main.py:211-220).
new_event(title, capacity) ==
    [title |-> title,
     capacity |-> Max(1, capacity),
     locked |-> FALSE,
     players |-> SliceTo(vip_rows(Max(1, capacity)), capacity),
     waitlist |-> <<>>]

\* A /newgame that carries the waitlist over into the new event.
newgame_keeps_waitlist(cd, lookup, args) ==
    IF ~user_is_admin(lookup)
    THEN Result(cd, AdminReply("newgame", lookup, "FORBIDDEN", 0, <<>>))
    ELSE LET event == ensure_event(cd).event
             capacity == newgame_capacity(event, args)
             title == newgame_title(event, args)
         IN Result([event |-> [new_event(title, capacity) EXCEPT
                                   !.waitlist = event.waitlist]],
                   AdminReply("newgame", lookup, "CREATED", capacity, args))

newgame(cd, lookup, args) ==
    IF ~user_is_admin(lookup)
    THEN Result(cd, AdminReply("newgame", lookup, "FORBIDDEN", 0, <<>>))
    ELSE LET event == ensure_event(cd).event
             capacity == newgame_capacity(event, args)
             title == newgame_title(event, args)
         IN Result([event |-> new_event(title, capacity)],
                   AdminReply("newgame", lookup, "CREATED", capacity, args))

\* A /list that shows a fresh roster instead of the stored one.
list_roster_fresh(cd) ==
    LET cd1 == ensure_event(NoChat)
    IN Result(cd1, Reply("list", None, "ROSTER", Len(cd1.event.players), None))

list_roster(cd) ==
    LET cd1 == ensure_event(cd)
    IN Result(cd1, Reply("list", None, "ROSTER", Len(cd1.event.players), None))

\* A /lock that calls ensure_event before the admin check.
lock_ensures_first(cd, lookup) ==
    IF ~user_is_admin(lookup)
    THEN Result(ensure_event(cd), AdminReply("lock", lookup, "FORBIDDEN", 0, <<>>))
    ELSE Result([event |-> [ensure_event(cd).event EXCEPT !.locked = TRUE]],
                AdminReply("lock", lookup, "LOCKED_OK", 0, <<>>))

lock(cd, lookup) ==
    IF ~user_is_admin(lookup)
    THEN Result(cd, AdminReply("lock", lookup, "FORBIDDEN", 0, <<>>))
    ELSE Result([event |-> [ensure_event(cd).event EXCEPT !.locked = TRUE]],
                AdminReply("lock", lookup, "LOCKED_OK", 0, <<>>))

\* A /unlock that flips the flag.
unlock_toggles(cd, lookup) ==
    IF ~user_is_admin(lookup)
    THEN Result(cd, AdminReply("unlock", lookup, "FORBIDDEN", 0, <<>>))
    ELSE Result([event |-> [ensure_event(cd).event EXCEPT !.locked = ~@]],
                AdminReply("unlock", lookup, "UNLOCKED_OK", 0, <<>>))

unlock(cd, lookup) ==
    IF ~user_is_admin(lookup)
    THEN Result(cd, AdminReply("unlock", lookup, "FORBIDDEN", 0, <<>>))
    ELSE Result([event |-> [ensure_event(cd).event EXCEPT !.locked = FALSE]],
                AdminReply("unlock", lookup, "UNLOCKED_OK", 0, <<>>))

\* A /reset that empties the lists of the event it finds and keeps the rest.
reset_keeps_settings(cd, lookup) ==
    IF ~user_is_admin(lookup)
    THEN Result(cd, AdminReply("reset", lookup, "FORBIDDEN", 0, <<>>))
    ELSE Result([event |-> [ensure_event(cd).event EXCEPT
                                !.players = <<>>, !.waitlist = <<>>]],
                AdminReply("reset", lookup, "RESET_OK", 0, <<>>))

\* chat_data.pop("event", None) followed by ensure_event.
reset(cd, lookup) ==
    IF ~user_is_admin(lookup)
    THEN Result(cd, AdminReply("reset", lookup, "FORBIDDEN", 0, <<>>))
    ELSE Result(ensure_event(NoChat), AdminReply("reset", lookup, "RESET_OK", 0, <<>>))

(* ------------------------- Core Join/Leave Logic ------------------------ *)
\* A lock check that only guards the free slots.
is_locked_when_free(event) == event.locked /\ Len(event.players) < event.capacity

\* if event.get("locked")
is_locked(event) == event.locked

\* An admission test that lets one more in than there are slots.
has_free_slot_off_by_one(event) == Len(event.players) <= event.capacity

\* An admission test that keeps the last slot free.
has_free_slot_but_one(event) == Len(event.players) < event.capacity - 1

\* if len(event["players"]) < capacity
has_free_slot(event) == Len(event.players) < event.capacity

\* A waitlist test that lets one more in than WAITLIST_CAPACITY.
waitlist_full_off_by_one(event) == Len(event.waitlist) > WAITLIST_CAPACITY

\* if len(event["waitlist"]) >= WAITLIST_CAPACITY
waitlist_full(event) == Len(event.waitlist) >= WAITLIST_CAPACITY

\* The 0-based index shown as it is.
shown_index_zero_based(i) == i

\* The number shown for the 0-based index i: "#{i+1}".
shown_index(i) == i + 1

handle_join(cd, uid) ==
    LET cd1 == ensure_event(cd)
        event == cd1.event
        i == find_user(event.players, uid)
        j == find_user(event.waitlist, uid)
    IN IF is_locked(event)
       THEN Result(cd1, Reply("join", uid, "LOCKED", 0, None))
       ELSE IF i # -1
       THEN Result(cd1, Reply("join", uid, "ALREADY_CONFIRMED", shown_index(i), None))
       ELSE IF j # -1
       THEN Result(cd1, Reply("join", uid, "ALREADY_WAITLISTED", shown_index(j), None))
       ELSE IF has_free_slot(event)
       THEN Result([event |-> [event EXCEPT !.players = Append(@, Entry(uid))]],
                   Reply("join", uid, "CONFIRMED", Len(event.players) + 1, None))
       ELSE IF waitlist_full(event)
       THEN Result(cd1, Reply("join", uid, "FULL", 0, None))
       ELSE Result([event |-> [event EXCEPT !.waitlist = Append(@, Entry(uid))]],
                   Reply("join", uid, "WAITLISTED", Len(event.waitlist) + 1, None))

\* handle_leave is called at src/main.py:235 and :286; its definition is not
\* part of the source file.  It is modelled from the description of leave:
\* search confirmed, then the waitlist, by identifier; a confirmed row that
\* leaves is replaced by the head of the waitlist; no lock check.

\* A promotion that takes the newest waitlisted row instead of the oldest.
promote_last(players, waitlist, k) ==
    IF Len(waitlist) > 0 THEN Append(Pop(players, k), waitlist[Len(waitlist)])
    ELSE Pop(players, k)

\* The confirmed list once row k has left: the head of the waitlist, if there
\* is one, is appended to it.
promote(players, waitlist, k) ==
    IF Len(waitlist) > 0 THEN Append(Pop(players, k), Head(waitlist))
    ELSE Pop(players, k)

\* A removal from the waitlist that drops its head whoever asked.
remove_waitlisted_head(waitlist, k) == Tail(waitlist)

\* The waitlist once row k has left it.
remove_waitlisted(waitlist, k) == Pop(waitlist, k)

leave(cd, uid) ==
    LET cd1 == ensure_event(cd)
        event == cd1.event
        i == find_user(event.players, uid)
        j == find_user(event.waitlist, uid)
    IN IF i # -1
       THEN Result([event |-> [event EXCEPT
                        !.players = promote(event.players, event.waitlist, i + 1),
                        !.waitlist = IF Len(@) > 0 THEN Tail(@) ELSE @]],
                   Reply("leave", uid, "LEFT_CONFIRMED", 0,
                         IF Len(event.waitlist) > 0
                         THEN Head(event.waitlist).user_id ELSE None))
       ELSE IF j # -1
       THEN Result([event |-> [event EXCEPT
                        !.waitlist = remove_waitlisted(@, j + 1)]],
                   Reply("leave", uid, "LEFT_WAITLIST", 0, None))
       ELSE Result(cd1, Reply("leave", uid, "NOT_FOUND", 0, None))

\* A leave that is refused, like join, while the roster is locked.
handle_leave_refused_when_locked(cd, uid) ==
    IF ensure_event(cd).event.locked
    THEN Result(ensure_event(cd), Reply("leave", uid, "LOCKED", 0, None))
    ELSE leave(cd, uid)

handle_leave(cd, uid) == leave(cd, uid)

(* ------------------- requests handled one at a time --------------------- *)
\* tasks is the bag of handlers suspended at their first await, each with the
\* update it handles.  Handlers that run one at a time leave it empty.
\* A suspended handler: where it waits, the command, the sender and the
\* arguments.
Task(pc, op, uid, args) == <<pc, op, uid, args>>
task_pc(task) == task[1]
task_op(task) == task[2]
task_uid(task) == task[3]
task_args(task) == task[4]

Init ==
    /\ chat_data = NoChat
    /\ last = NoReply
    /\ tasks = EmptyBag

Handled(r) ==
    /\ chat_data' = r.chat
    /\ last' = r.reply
    /\ UNCHANGED tasks

start == Handled(Result(ensure_event(chat_data), Reply("start", None, "HELP", 0, None)))

\* A refused /newgame returns before it reads its arguments.
newgame_cmd ==
    \E lookup \in Lookups :
        \E args \in IF user_is_admin(lookup) THEN ArgInputs ELSE {<<>>} :
            Handled(newgame(chat_data, lookup, args))

join_cmd == \E uid \in Users : Handled(handle_join(chat_data, uid))

\* Is this id in one of the two lists?
Present(cd, uid) ==
    LET event == ensure_event(cd).event
    IN \/ \E i \in 1..Len(event.players) : event.players[i].user_id = uid
       \/ \E i \in 1..Len(event.waitlist) : event.waitlist[i].user_id = uid

\* /join sent by the next background member that is in neither list.
join_cmd_background ==
    \E uid \in Background :
        /\ ~Present(chat_data, uid)
        /\ \A b \in Background : b < uid => Present(chat_data, b)
        /\ Handled(handle_join(chat_data, uid))

leave_cmd == \E uid \in Users : Handled(handle_leave(chat_data, uid))

list_cmd == Handled(list_roster(chat_data))

lock_cmd == \E lookup \in Lookups : Handled(lock(chat_data, lookup))

unlock_cmd == \E lookup \in Lookups : Handled(unlock(chat_data, lookup))

reset_cmd == \E lookup \in Lookups : Handled(reset(chat_data, lookup))

\* The inline buttons: Join, Leave, List and the "Locked" button (noop).
on_button ==
    \E uid \in Users, data \in {"join", "leave", "list", "noop"} :
        IF data = "join" THEN Handled(handle_join(chat_data, uid))
        ELSE IF data = "leave" THEN Handled(handle_leave(chat_data, uid))
        ELSE IF data = "list" THEN Handled(list_roster(chat_data))
        ELSE Handled(Result(chat_data, last))

Next ==
    \/ start
    \/ newgame_cmd
    \/ join_cmd
    \/ join_cmd_background
    \/ leave_cmd
    \/ list_cmd
    \/ lock_cmd
    \/ unlock_cmd
    \/ reset_cmd
    \/ on_button

Spec == Init /\ [][Next]_vars

(* --------------- handlers interleaving at their awaits ------------------ *)
\* Every handler is a coroutine on one event loop: it runs without
\* interruption from one await to the next, and other handlers of the chat
\* run while it is suspended.  The awaits are query.answer() at the start of
\* on_button, get_chat_member at the start of the admin commands, and the
\* reply at the end of every handler; the reply's text is computed before
\* the handler suspends on it and nothing follows it.  A task is a handler
\* suspended at its first await.
AsyncArgInputs == {<<>>, <<"0">>}

\* A /join, /leave or /list has no await before its reply: it runs at once.
dispatch_cmd ==
    \/ join_cmd
    \/ leave_cmd
    \/ list_cmd

Suspend(task) ==
    /\ BagCardinality(tasks) < MaxTasks
    /\ tasks' = tasks (+) SetToBag({task})
    /\ UNCHANGED <<chat_data, last>>

Resume(task, r) ==
    /\ BagIn(task, tasks)
    /\ tasks' = tasks (-) SetToBag({task})
    /\ chat_data' = r.chat
    /\ last' = r.reply

\* A button is pressed: on_button suspends on query.answer().
dispatch_button ==
    \E uid \in Users, data \in {"join", "leave"} :
        Suspend(Task("await_answer", data, uid, <<>>))

\* query.answer() returns: the rest of on_button runs up to its reply.
answer_returns ==
    \E task \in BagToSet(tasks) :
        /\ task_pc(task) = "await_answer"
        /\ Resume(task, IF task_op(task) = "join"
                        THEN handle_join(chat_data, task_uid(task))
                        ELSE handle_leave(chat_data, task_uid(task)))

\* An admin command arrives: it suspends on get_chat_member.
dispatch_admin ==
    \E op \in {"newgame", "lock", "unlock", "reset"} :
        \E args \in IF op = "newgame" THEN AsyncArgInputs ELSE {<<>>} :
            Suspend(Task("await_admin", op, None, args))

\* get_chat_member returns or raises: the rest of the command runs up to its
\* reply.
admin_returns ==
    \E task \in BagToSet(tasks), lookup \in Lookups :
        /\ task_pc(task) = "await_admin"
        /\ Resume(task, IF task_op(task) = "newgame"
                        THEN newgame(chat_data, lookup, task_args(task))
                        ELSE IF task_op(task) = "lock" THEN lock(chat_data, lookup)
                        ELSE IF task_op(task) = "unlock" THEN unlock(chat_data, lookup)
                        ELSE reset(chat_data, lookup))

NextAsync ==
    \/ dispatch_cmd
    \/ dispatch_button
    \/ answer_returns
    \/ dispatch_admin
    \/ admin_returns

RECURSIVE JoinAll(_, _)
\* chat_data after these users, in this order, have each sent /join.
JoinAll(cd, uids) ==
    IF Len(uids) = 0 THEN cd
    ELSE JoinAll(handle_join(cd, Head(uids)).chat, Tail(uids))

\* The chat after an admin's "/newgame 1" and a /join of every background
\* member: the seeded row holds the only slot and one waitlist slot is left.
Prefilled ==
    JoinAll(newgame(NoChat, "admin", <<"1">>).chat,
            [i \in 1..(WAITLIST_CAPACITY - 1) |-> MaxUsers + i])

\* The interleavings are explored from a chat nobody has used yet and from
\* the chat above, in which the waitlist is one short of full.
InitAsync ==
    /\ chat_data \in {NoChat, Prefilled}
    /\ last = NoReply
    /\ tasks = EmptyBag

SpecAsync == InitAsync /\ [][NextAsync]_vars

(* ------------------------ the roster, as observed ----------------------- *)
HasEvent == "event" \in DOMAIN chat_data
\* The roster a request finds: the stored event, or the default one.
Ev == ensure_event(chat_data).event
\* The roster a request leaves.
EvNext == ensure_event(chat_data').event

Confirmed == Ev.players
Waitlist == Ev.waitlist

InList(lst, uid) == \E i \in 1..Len(lst) : lst[i].user_id = uid

\* A step that handled a /join (or the Join button), a /leave.
JoinStep == last'.op = "join"
LeaveStep == last'.op = "leave"

(* ------------------------------ C1 -------------------------------------- *)
\* C1: in every reachable state the confirmed list has at most `capacity`
\* rows and the waitlist at most WAITLIST_CAPACITY rows.
C1_CapacityBounds ==
    /\ Len(Confirmed) <= Ev.capacity
    /\ Len(Waitlist) <= WAITLIST_CAPACITY

\* Both lists are full, and the last request took the last waitlist slot.
C1_Witness ==
    /\ Len(Confirmed) = Ev.capacity
    /\ Len(Waitlist) = WAITLIST_CAPACITY
    /\ last.code = "WAITLISTED"

(* ------------------------------ C2 -------------------------------------- *)
\* C2: in every reachable state no non-null identifier occurs twice in the
\* concatenation of the confirmed list and the waitlist.
C2_NoDuplicateIdentifier ==
    LET all == Confirmed \o Waitlist
    IN \A i, j \in 1..Len(all) :
           (i < j /\ all[i].user_id # None) => all[i].user_id # all[j].user_id

\* A user holds a slot, others wait, and a repeated join has just been refused.
C2_Witness ==
    /\ \E u \in Users : InList(Confirmed, u)
    /\ Len(Waitlist) >= 2
    /\ last.code \in {"ALREADY_CONFIRMED", "ALREADY_WAITLISTED"}

(* ------------------------------ C3 -------------------------------------- *)
\* Is this step's roster and reply what the handler gives?
Gives(r) == chat_data' = r.chat /\ last' = r.reply

\* Some request, handled as a whole on the roster as it is now, gives this
\* step's roster and reply.
SerialStep ==
    \/ last'.op = "join" /\ Gives(handle_join(chat_data, last'.uid))
    \/ last'.op = "leave" /\ Gives(handle_leave(chat_data, last'.uid))
    \/ last'.op = "list" /\ Gives(list_roster(chat_data))
    \/ last'.op = "newgame"
         /\ \E lookup \in Lookups, args \in ArgInputs :
                Gives(newgame(chat_data, lookup, args))
    \/ last'.op = "lock" /\ \E lookup \in Lookups : Gives(lock(chat_data, lookup))
    \/ last'.op = "unlock" /\ \E lookup \in Lookups : Gives(unlock(chat_data, lookup))
    \/ last'.op = "reset" /\ \E lookup \in Lookups : Gives(reset(chat_data, lookup))

\* C3: with handlers of one chat suspended at their awaits and resumed in any
\* order, every change of the roster is one whole request applied to the
\* roster as it is at that moment; a join that is admitted takes a slot that
\* is free at that moment and keeps every row already there, so two joins
\* never get the same slot and neither list exceeds its capacity.
C3_Serialized ==
    [][(<<chat_data', last'>> # <<chat_data, last>>) =>
         /\ SerialStep
         /\ Len(EvNext.players) <= EvNext.capacity
         /\ Len(EvNext.waitlist) <= WAITLIST_CAPACITY
         /\ (last'.code = "CONFIRMED") =>
                /\ Len(Confirmed) < Ev.capacity
                /\ last'.pos = Len(Confirmed) + 1
                /\ SubSeq(EvNext.players, 1, Len(Confirmed)) = Confirmed
                /\ EvNext.players[last'.pos].user_id = last'.uid
                /\ EvNext.waitlist = Waitlist
         /\ (last'.code = "WAITLISTED") =>
                /\ Len(Waitlist) < WAITLIST_CAPACITY
                /\ last'.pos = Len(Waitlist) + 1
                /\ SubSeq(EvNext.waitlist, 1, Len(Waitlist)) = Waitlist
                /\ EvNext.waitlist[last'.pos].user_id = last'.uid
                /\ EvNext.players = Confirmed]_vars

\* One join has taken the last waitlist slot while the Join button pressed by
\* another user, who is in neither list, is still suspended.
C3_Witness ==
    /\ last.code = "WAITLISTED"
    /\ last.pos = WAITLIST_CAPACITY
    /\ \E task \in BagToSet(tasks) :
           /\ task_pc(task) = "await_answer"
           /\ task_op(task) = "join"
           /\ task_uid(task) # last.uid
           /\ ~InList(Confirmed, task_uid(task))
           /\ ~InList(Waitlist, task_uid(task))

(* ------------------------------ C4 -------------------------------------- *)
\* C4: while the roster is locked every join is refused with LOCKED and
\* leaves chat_data as it was, whatever the lists hold and whether or not
\* the actor is in one of them.
C4_LockedJoinRefused ==
    [][(JoinStep /\ HasEvent /\ Ev.locked)
         => (last'.code = "LOCKED" /\ chat_data' = chat_data)]_vars

\* A locked roster has refused the join of an actor who is in one of the lists.
C4_Witness ==
    /\ HasEvent /\ Ev.locked
    /\ last.code = "LOCKED"
    /\ (InList(Confirmed, last.uid) \/ InList(Waitlist, last.uid))

(* ------------------------------ C5 -------------------------------------- *)
\* C5: on an unlocked roster a join by an actor already in confirmed is
\* refused with ALREADY_CONFIRMED and the actor's 1-based index in confirmed,
\* a join by an actor already in the waitlist with ALREADY_WAITLISTED and the
\* 1-based waitlist index; chat_data is unchanged in both cases.
C5_RepeatedJoinRefused ==
    [][(JoinStep /\ ~Ev.locked) =>
         /\ \A k \in 1..Len(Confirmed) :
                Confirmed[k].user_id = last'.uid =>
                    /\ last'.code = "ALREADY_CONFIRMED"
                    /\ last'.pos = k
                    /\ chat_data' = chat_data
         /\ \A k \in 1..Len(Waitlist) :
                Waitlist[k].user_id = last'.uid =>
                    /\ last'.code = "ALREADY_WAITLISTED"
                    /\ last'.pos = k
                    /\ chat_data' = chat_data]_vars

\* A waitlisted actor behind others has been told the place in the waitlist.
C5_Witness ==
    /\ last.code = "ALREADY_WAITLISTED"
    /\ last.pos >= 2
    /\ ~Ev.locked

(* ------------------------------ C6 -------------------------------------- *)
\* C6: on an unlocked roster a join by an actor in neither list, with a free
\* confirmed slot, appends one non-VIP row for the actor at the end of
\* confirmed, replies CONFIRMED with the new length of confirmed, and leaves
\* the waitlist and the earlier confirmed rows as they were.
C6_JoinConfirmed ==
    [][(/\ JoinStep
        /\ ~Ev.locked
        /\ ~InList(Confirmed, last'.uid)
        /\ ~InList(Waitlist, last'.uid)
        /\ Len(Confirmed) < Ev.capacity) =>
         /\ Len(EvNext.players) = Len(Confirmed) + 1
         /\ SubSeq(EvNext.players, 1, Len(Confirmed)) = Confirmed
         /\ EvNext.players[Len(EvNext.players)].user_id = last'.uid
         /\ EvNext.players[Len(EvNext.players)].is_vip = FALSE
         /\ EvNext.waitlist = Waitlist
         /\ last'.code = "CONFIRMED"
         /\ last'.pos = Len(EvNext.players)]_vars

\* An actor was confirmed behind the seeded rows and another user.
C6_Witness ==
    /\ last.code = "CONFIRMED"
    /\ last.pos >= 4
    /\ Confirmed[1].is_vip
    /\ Confirmed[last.pos].user_id = last.uid
    /\ Confirmed[last.pos].is_vip = FALSE

(* ------------------------------ C7 -------------------------------------- *)
\* C7: on an unlocked roster whose confirmed list is full, a join by an actor
\* in neither list appends the actor to the waitlist and replies WAITLISTED
\* with the new waitlist length while the waitlist has room, and is refused
\* with FULL, chat_data unchanged, when it has none; and no join moves a row
\* of the waitlist into confirmed.
C7_JoinWaitlistedOrFull ==
    [][JoinStep =>
         /\ (/\ ~Ev.locked
             /\ ~InList(Confirmed, last'.uid)
             /\ ~InList(Waitlist, last'.uid)
             /\ Len(Confirmed) >= Ev.capacity) =>
                IF Len(Waitlist) < WAITLIST_CAPACITY
                THEN /\ Len(EvNext.waitlist) = Len(Waitlist) + 1
                     /\ SubSeq(EvNext.waitlist, 1, Len(Waitlist)) = Waitlist
                     /\ EvNext.waitlist[Len(EvNext.waitlist)].user_id = last'.uid
                     /\ EvNext.players = Confirmed
                     /\ last'.code = "WAITLISTED"
                     /\ last'.pos = Len(EvNext.waitlist)
                ELSE /\ last'.code = "FULL"
                     /\ chat_data' = chat_data
         /\ SubSeq(EvNext.waitlist, 1, Len(Waitlist)) = Waitlist
         /\ \A k \in 1..Len(Waitlist) :
                Waitlist[k].user_id # None =>
                    ~InList(EvNext.players, Waitlist[k].user_id)]_vars

\* The seeded rows alone fill confirmed, the waitlist is full, and a join
\* has been refused with FULL.
C7_Witness ==
    /\ last.code = "FULL"
    /\ Len(Confirmed) = Ev.capacity
    /\ \A k \in 1..Len(Confirmed) : Confirmed[k].is_vip
    /\ Len(Waitlist) = WAITLIST_CAPACITY

(* ------------------------------ C8 -------------------------------------- *)
\* C8: when a confirmed actor leaves and the waitlist is not empty, the first
\* waitlist row moves to the end of confirmed, the other waitlisted rows keep
\* their order, and the reply is LEFT_CONFIRMED naming the promoted actor;
\* with an empty waitlist nobody is promoted.
C8_LeavePromotesHead ==
    [][LeaveStep =>
         \A k \in 1..Len(Confirmed) :
             Confirmed[k].user_id = last'.uid =>
                 /\ last'.code = "LEFT_CONFIRMED"
                 /\ IF Len(Waitlist) > 0
                    THEN /\ EvNext.waitlist = Tail(Waitlist)
                         /\ EvNext.players =
                                SubSeq(Confirmed, 1, k - 1)
                                \o SubSeq(Confirmed, k + 1, Len(Confirmed))
                                \o <<Head(Waitlist)>>
                         /\ last'.promoted = Head(Waitlist).user_id
                         /\ last'.promoted # None
                    ELSE /\ EvNext.waitlist = <<>>
                         /\ EvNext.players =
                                SubSeq(Confirmed, 1, k - 1)
                                \o SubSeq(Confirmed, k + 1, Len(Confirmed))
                         /\ last'.promoted = None]_vars

\* A confirmed actor has left, the head of the waitlist now holds the last
\* confirmed row, and two or more actors are still waiting.
C8_Witness ==
    /\ last.code = "LEFT_CONFIRMED"
    /\ last.promoted # None
    /\ Len(Waitlist) >= 2
    /\ Len(Confirmed) >= 1
    /\ Confirmed[Len(Confirmed)].user_id = last.promoted

(* ------------------------------ C9 -------------------------------------- *)
\* C9: the lock never blocks a leave: on a locked roster a confirmed actor
\* who leaves is removed (and the head of the waitlist promoted), a
\* waitlisted actor who leaves is removed, the roster that results is the
\* one the same leave gives on the unlocked roster, and the lock stays set.
C9_LeaveIgnoresLock ==
    [][(LeaveStep /\ HasEvent /\ Ev.locked) =>
         /\ EvNext.locked
         /\ (InList(Confirmed, last'.uid) \/ InList(Waitlist, last'.uid)) =>
                /\ ~InList(EvNext.players, last'.uid)
                /\ ~InList(EvNext.waitlist, last'.uid)
                /\ Len(EvNext.players) + Len(EvNext.waitlist)
                       = Len(Confirmed) + Len(Waitlist) - 1
                /\ last'.code \in {"LEFT_CONFIRMED", "LEFT_WAITLIST"}
         /\ (InList(Confirmed, last'.uid) /\ Len(Waitlist) > 0) =>
                /\ EvNext.players[Len(EvNext.players)] = Head(Waitlist)
                /\ EvNext.waitlist = Tail(Waitlist)
         /\ LET unlocked == [event |-> [Ev EXCEPT !.locked = FALSE]]
                r == handle_leave(unlocked, last'.uid)
            IN /\ EvNext = [r.chat.event EXCEPT !.locked = TRUE]
               /\ last' = r.reply]_vars

\* On a locked roster a confirmed actor has left and a waitlisted one moved up.
C9_Witness ==
    /\ HasEvent /\ Ev.locked
    /\ last.code = "LEFT_CONFIRMED"
    /\ last.promoted # None

(* ------------------------------ C10 ------------------------------------- *)
\* C10: a leave by an actor in neither list is refused with NOT_FOUND and
\* leaves the roster as it was; a leave by a waitlisted actor removes that
\* waitlist row only, replies LEFT_WAITLIST and leaves confirmed as it was.
C10_LeaveNotFoundOrWaitlist ==
    [][LeaveStep =>
         /\ (~InList(Confirmed, last'.uid) /\ ~InList(Waitlist, last'.uid)) =>
                /\ last'.code = "NOT_FOUND"
                /\ EvNext = Ev
         /\ \A k \in 1..Len(Waitlist) :
                (Waitlist[k].user_id = last'.uid /\ ~InList(Confirmed, last'.uid)) =>
                    /\ last'.code = "LEFT_WAITLIST"
                    /\ EvNext.waitlist =
                           SubSeq(Waitlist, 1, k - 1)
                           \o SubSeq(Waitlist, k + 1, Len(Waitlist))
                    /\ EvNext = [Ev EXCEPT !.waitlist = EvNext.waitlist]]_vars

\* A waitlisted actor behind another has left; the one ahead still waits.
C10_Witness ==
    /\ last.code = "LEFT_WAITLIST"
    /\ Len(Waitlist) >= 2
    /\ Len(Confirmed) = Ev.capacity
    /\ Waitlist[1].user_id > last.uid

(* ------------------------------ C11 ------------------------------------- *)
\* A step in which an admin's /newgame created a roster.
CreateStep == last'.op = "newgame" /\ last'.code = "CREATED"

\* Do the arguments of /newgame end in a capacity override?  Which one?
HasOverride(args) == Len(args) > 0 /\ IsInt(args[Len(args)])
OverrideOf(args) == int(args[Len(args)])

\* The first n reserved rows, one per name of VIP_NAMES in list order.
SeededRows(n) == [i \in 1..n |-> VipRow(VIP_NAMES[i])]

\* C11: for every capacity override (positive, zero or negative) the new
\* roster's capacity is the override clamped to at least 1, and confirmed is
\* seeded with exactly min(capacity, len(VIP_NAMES)) reserved rows, counted
\* with the clamped capacity, in list order.
C11_CreateClampsAndSeeds ==
    [][(CreateStep /\ HasOverride(last'.args)) =>
         /\ EvNext.capacity = Max(1, OverrideOf(last'.args))
         /\ EvNext.players =
                SeededRows(Min(EvNext.capacity, Len(VIP_NAMES)))]_vars

C13_CreateReplacesRoster ==
    [][CreateStep =>
         /\ ~EvNext.locked
         /\ EvNext.waitlist = <<>>
         /\ \A k \in 1..Len(EvNext.players) :
                EvNext.players[k].is_vip /\ EvNext.players[k].user_id = None
         /\ \A u \in Users \cup Background :
                ~InList(EvNext.players, u) /\ ~InList(EvNext.waitlist, u)]_vars

\* A /newgame has just created a roster, seeded and unlocked.
C13_Witness ==
    /\ last.op = "newgame" /\ last.code = "CREATED"
    /\ HasEvent /\ ~Ev.locked
    /\ Len(Confirmed) = Len(VIP_NAMES)
    /\ Waitlist = <<>>

(* ------------------------------ C14 ------------------------------------- *)
AdminOps == {"newgame", "lock", "unlock", "reset"}

\* C14: a /newgame, /lock, /unlock or /reset of a caller who is not an admin
\* is refused (FORBIDDEN) and chat_data, the existence of the event
\* included, is what it was.
C14_NonAdminRefused ==
    [][(last'.op \in AdminOps /\ last'.lookup = "member") =>
         /\ last'.code = "FORBIDDEN"
         /\ chat_data' = chat_data]_vars

\* A plain member's admin command was refused in a chat that has no event,
\* and there is still none.
C14_Witness ==
    /\ last.op \in AdminOps
    /\ last.lookup = "member"
    /\ last.code = "FORBIDDEN"
    /\ ~HasEvent

(* ------------------------------ C15 ------------------------------------- *)
\* C15: an admin's /lock sets locked, an admin's /unlock clears it, each
\* leaves title, capacity, confirmed and waitlist as they were, and each
\* applied a second time gives the state it gave the first time.
C15_LockUnlockToggle ==
    [][/\ (last'.op = "lock" /\ last'.code = "LOCKED_OK") =>
             /\ EvNext = [Ev EXCEPT !.locked = TRUE]
             /\ lock(chat_data', "admin").chat = chat_data'
       /\ (last'.op = "unlock" /\ last'.code = "UNLOCKED_OK") =>
             /\ EvNext = [Ev EXCEPT !.locked = FALSE]
             /\ unlock(chat_data', "admin").chat = chat_data']_vars

\* A roster with confirmed and waitlisted actors has just been unlocked.
C15_Witness ==
    /\ last.op = "unlock" /\ last.code = "UNLOCKED_OK"
    /\ ~Ev.locked
    /\ Len(Waitlist) >= 1
    /\ \E u \in Users : InList(Confirmed, u)

(* ------------------------------ C16 ------------------------------------- *)
\* The requests a chat can receive, and the handler's result for each.
Requests ==
    [op : {"join", "leave"}, uid : Users \cup Background,
     lookup : {"none"}, args : {<<>>}]
    \cup [op : {"list"}, uid : {None}, lookup : {"none"}, args : {<<>>}]
    \cup [op : {"newgame"}, uid : {None}, lookup : Lookups, args : ArgInputs]
    \cup [op : {"lock", "unlock", "reset"}, uid : {None}, lookup : Lookups,
          args : {<<>>}]

Handle(cd, req) ==
    IF req.op = "join" THEN handle_join(cd, req.uid)
    ELSE IF req.op = "leave" THEN handle_leave(cd, req.uid)
    ELSE IF req.op = "list" THEN list_roster(cd)
    ELSE IF req.op = "newgame" THEN newgame(cd, req.lookup, req.args)
    ELSE IF req.op = "lock" THEN lock(cd, req.lookup)
    ELSE IF req.op = "unlock" THEN unlock(cd, req.lookup)
    ELSE reset(cd, req.lookup)

\* Two chats that no request tells apart: equal, or one without an event and
\* the other with the default event.
SameRoster(cd1, cd2) == ensure_event(cd1) = ensure_event(cd2)

\* C16: after an admin's /reset the roster is the one a first access creates
\* (default capacity, both lists empty, no reserved rows, unlocked, no
\* title), and every request gets from it the reply it gets from a chat
\* without an event and leaves a roster no request tells apart from the one
\* it leaves there.
C16_ResetIsFreshRoster ==
    (last.op = "reset" /\ last.code = "RESET_OK") =>
        /\ HasEvent
        /\ Ev.capacity = DEFAULT_CAPACITY
        /\ Ev.players = <<>>
        /\ Ev.waitlist = <<>>
        /\ Ev.locked = FALSE
        /\ Ev.title = NoTitle
        /\ \A req \in Requests :
               /\ Handle(chat_data, req).reply = Handle(NoChat, req).reply
               /\ SameRoster(Handle(chat_data, req).chat,
                             Handle(NoChat, req).chat)

\* An admin has just reset the chat.
C16_Witness ==
    /\ last.op = "reset" /\ last.code = "RESET_OK"
    /\ chat_data = [event |-> DefaultEvent]

(* ------------------------------ C17 ------------------------------------- *)
\* C17 as stated: when the admin lookup of /newgame, /lock, /unlock or /reset
\* raises, the caller gets a COLLABORATOR_FAILURE outcome, which is not the
\* FORBIDDEN of a plain member, and chat_data is what it was.
C17_LookupFailureIsDistinct ==
    [][(last'.op \in AdminOps /\ last'.lookup = "error") =>
         /\ last'.code = "COLLABORATOR_FAILURE"
         /\ last'.code # "FORBIDDEN"
         /\ chat_data' = chat_data]_vars

\* C17 as amended: when the admin lookup raises, the caller is taken for a
\* plain member: the reply is the FORBIDDEN refusal a plain member gets for
\* the same command, and chat_data is what it was.
C17_LookupFailureIsForbidden ==
    [][(last'.op \in AdminOps /\ last'.lookup = "error") =>
         /\ last'.code = "FORBIDDEN"
         /\ [last' EXCEPT !.lookup = "member"]
                = Handle(chat_data, [op |-> last'.op, uid |-> None,
                                     lookup |-> "member", args |-> <<>>]).reply
         /\ chat_data' = chat_data]_vars

\* The lookup raised for an admin command on a roster that has confirmed
\* users, and the command was refused.
C17_Witness ==
    /\ last.op \in AdminOps
    /\ last.lookup = "error"
    /\ last.code = "FORBIDDEN"
    /\ HasEvent
    /\ \E u \in Users : InList(Confirmed, u)

(* ------------------------------ C18 ------------------------------------- *)
\* C18: a list request, on a locked roster as on an unlocked one, is answered
\* with the stored roster and leaves chat_data as it was, except that a chat
\* without an event gets the default one.
C18_ListIsReadOnly ==
    [][last'.op = "list" =>
         /\ last'.code = "ROSTER"
         /\ last'.pos = Len(Confirmed)
         /\ HasEvent => chat_data' = chat_data
         /\ ~HasEvent => chat_data' = [event |-> DefaultEvent]]_vars

\* A locked roster with waitlisted users has just been listed.
C18_Witness ==
    /\ last.op = "list" /\ last.code = "ROSTER"
    /\ HasEvent /\ Ev.locked
    /\ Len(Waitlist) >= 1
    /\ last.pos = Len(Confirmed)

(* ------------------------------ C19 ------------------------------------- *)
\* C19: in every reachable state, if the waitlist is not empty then confirmed
\* holds exactly capacity rows.
C19_WaitlistOnlyWhenFull ==
    Len(Waitlist) > 0 => Len(Confirmed) = Ev.capacity

\* A confirmed user has left, the head of the waitlist was promoted into the
\* slot, and others are still waiting.
C19_Witness ==
    /\ last.code = "LEFT_CONFIRMED" /\ last.promoted # None
    /\ Len(Waitlist) > 0
    /\ Len(Confirmed) = Ev.capacity

(* ------------------------------ C20 ------------------------------------- *)
\* The number of reserved rows in a list.
VipCount(lst) == Cardinality({k \in 1..Len(lst) : lst[k].is_vip})

====
